---- MODULE Spec2Model ----
(***************************************************************************)
(* Model of the json_action dispatch registry (src/src/action.rs,          *)
(* src/src/error.rs): the Action envelope, the ActionReply projection and  *)
(* Manager<R> with its registration, provisioning and dispatch methods.    *)
(***************************************************************************)
EXTENDS Integers, Sequences, FiniteSets, TLC

VARIABLES mgr, envelope, reply, last, firstReg, genCount, dispatched,
          aborted, io, mgr2, chain, run, cells

\* What the steps of the dispatch cycle leave alone.
side == <<mgr2, chain, run, cells>>
aux == <<aborted, io, side>>

vars == <<mgr, envelope, reply, last, firstReg, genCount, dispatched, aux>>

(* ------------------------------ bounds -------------------------------- *)
\* generator invocations over the manager's life
MaxGens == 2
\* calls (dispatch, set_result, set_error) made on one envelope
MaxDispatch == 2

(* ------------------------- Option<T>, values -------------------------- *)
\* Option<T>: None is the empty tuple, Some(x) the one-element tuple.
None == <<>>
Some(x) == <<x>>
IsSome(o) == Len(o) > 0
IsNone(o) == Len(o) = 0

\* serde_json::Value, by variant.
JsonNull == <<"Null">>
JsonString(s) == <<"String", s>>
JsonNumber(n) == <<"Number", n>>

\* serde_json::value::to_value applied to a Value: rebuilt variant by variant.
to_value(v) ==
    CASE v[1] = "Null" -> <<"Null">>
      [] v[1] = "String" -> <<"String", v[2]>>
      [] v[1] = "Number" -> <<"Number", v[2]>>

\* Result<Value, ActionError>
Ok(v) == <<"Ok", v>>
Err(e) == <<"Err", e>>
IsOk(r) == r[1] = "Ok"

\* HashMap<String, Value>::new()
EmptyMap == [k \in {} |-> JsonNull]

(* ----------------------------- error.rs ------------------------------- *)
ActionError_new(code, message) == [code |-> code, message |-> message]

(* ------------------------------ inputs -------------------------------- *)
ManagerNames == {"users", "orders"}
ActionNames == {"get", "delete"}
HandlerIds == {"hPay", "hErr"}
GenIds == {"g1", "g2"}

\* The resource handed to Manager::new.
SharedResource == [kind |-> "shared", gen |-> "none", serial |-> 0]
\* The n-th instance a generator closure returns.
Generate(g, n) == [kind |-> "fresh", gen |-> g, serial |-> n]

\* The handler closures registered in the model: what each returns for
\* (resource, action).
Handler(h, r, a) ==
    CASE h = "hErr" -> Err(ActionError_new("Handler", "failed"))
      [] h = "hPay" ->
            IF "user" \in DOMAIN a.payload
            THEN Ok(a.payload["user"])
            ELSE Err(ActionError_new("PayloadError", "missing field"))

\* The caller-owned fields of an envelope, in two shapes.
Shapes ==
    { [id |-> 7, token |-> None, base64 |-> None, payload |-> EmptyMap],
      [id |-> 8, token |-> Some("tok"), base64 |-> Some("QUJD"),
       payload |-> ("user" :> JsonString("bob"))] }

OldError == ActionError_new("Earlier", "already failed")

\* What result and errors hold when the caller hands the envelope over:
\* nothing yet, an empty errors list, or an earlier result and error.
Priors ==
    { [result |-> None, errors |-> None],
      [result |-> None, errors |-> Some(<<>>)],
      [result |-> Some(JsonNull), errors |-> Some(<<OldError>>)] }

\* struct Action: every envelope a caller can hand to the manager (all
\* fields are pub, and deserialization fills result and errors too).
Envelopes ==
    { [name |-> n, id |-> s.id, token |-> s.token, base64 |-> s.base64,
       payload |-> s.payload, result |-> p.result, errors |-> p.errors] :
        n \in ActionNames, s \in Shapes, p \in Priors }

Created(a) == IsNone(a.result) /\ IsNone(a.errors)

(* --------------------------- impl Action ------------------------------ *)
\* Mutant of set_result: a result supersedes the errors recorded so far.
set_result_clears_errors(a, res) ==
    [a EXCEPT !.result = Some(res), !.errors = None]

set_result(a, res) == [a EXCEPT !.result = Some(res)]

\* Mutant of set_error: the new error replaces the list.
set_error_replace(a, value) == [a EXCEPT !.errors = Some(<<value>>)]

set_error(a, value) ==
    [a EXCEPT !.errors =
        IF IsSome(@) THEN Some(Append(@[1], value)) ELSE Some(<<value>>)]

\* Mutant of into_reply: the reply always starts from an empty error list.
into_reply_no_errors(a) ==
    [id |-> a.id, name |-> a.name, payload |-> a.payload,
     result |-> a.result, errors |-> <<>>]

into_reply(a) ==
    LET errors == IF IsSome(a.errors) THEN a.errors[1] ELSE <<>>
    IN  [id |-> a.id, name |-> a.name, payload |-> a.payload,
         result |-> a.result, errors |-> errors]

\* Mutant of server_err: the envelope built as Action::into builds it.
server_err_no_errors(err) ==
    [id |-> 0, token |-> None, name |-> "server-error", base64 |-> None,
     payload |-> EmptyMap, errors |-> None, result |-> None]

server_err(err) ==
    LET v == Append(<<>>, err)
    IN  [id |-> 0, token |-> None, name |-> "server-error", base64 |-> None,
         payload |-> EmptyMap, errors |-> Some(v), result |-> None]

(* ------------------------------ decoding ------------------------------ *)
\* The bytes of {"name":"get","id":7,"payload":{}}
DocGet ==
    <<123, 34, 110, 97, 109, 101, 34, 58, 34, 103, 101, 116, 34, 44, 34,
      105, 100, 34, 58, 55, 44, 34, 112, 97, 121, 108, 111, 97, 100, 34,
      58, 123, 125, 125>>

\* The bytes of {"name":"delete","id":8,"token":"tok","payload":{"user":"bob"}}
DocDelete ==
    <<123, 34, 110, 97, 109, 101, 34, 58, 34, 100, 101, 108, 101, 116, 101,
      34, 44, 34, 105, 100, 34, 58, 56, 44, 34, 116, 111, 107, 101, 110,
      34, 58, 34, 116, 111, 107, 34, 44, 34, 112, 97, 121, 108, 111, 97,
      100, 34, 58, 123, 34, 117, 115, 101, 114, 34, 58, 34, 98, 111, 98,
      34, 125, 125>>

\* The bytes of {"name":"get","id":7}: no payload field.
DocNoPayload ==
    <<123, 34, 110, 97, 109, 101, 34, 58, 34, 103, 101, 116, 34, 44, 34,
      105, 100, 34, 58, 55, 125>>

\* The buffers handed to from_bytes: documents, a cut-off document, text that
\* is no document, and byte strings that are not UTF-8 (a stray 0xFF, a lone
\* continuation byte, a lead byte without its continuation, an overlong form).
Buffers ==
    { DocGet, DocDelete, DocNoPayload,
      SubSeq(DocGet, 1, Len(DocGet) - 1),
      <<>>, <<104, 105>>, <<195, 169>>, <<226, 130, 172>>,
      <<255>>, <<128>>, <<195>>, <<192, 128>>, <<237, 160, 128>>,
      DocGet \o <<255>>, <<195>> \o DocGet }

IsCont(b) == b >= 128 /\ b <= 191

\* std::str::from_utf8(..).is_ok(): the byte string is well-formed UTF-8.
RECURSIVE Utf8From(_, _)
Utf8From(b, i) ==
    IF i > Len(b) THEN TRUE
    ELSE LET c == b[i]
             has(k) == i + k <= Len(b)
         IN  CASE c < 128 -> Utf8From(b, i + 1)
               [] c >= 194 /\ c <= 223 ->
                     has(1) /\ IsCont(b[i + 1]) /\ Utf8From(b, i + 2)
               [] c >= 224 /\ c <= 239 ->
                     /\ has(2)
                     /\ IsCont(b[i + 1]) /\ IsCont(b[i + 2])
                     /\ (c = 224 => b[i + 1] >= 160)
                     /\ (c = 237 => b[i + 1] <= 159)
                     /\ Utf8From(b, i + 3)
               [] c >= 240 /\ c <= 244 ->
                     /\ has(3)
                     /\ IsCont(b[i + 1]) /\ IsCont(b[i + 2])
                     /\ IsCont(b[i + 3])
                     /\ (c = 240 => b[i + 1] >= 144)
                     /\ (c = 244 => b[i + 1] <= 143)
                     /\ Utf8From(b, i + 4)
               [] OTHER -> FALSE

from_utf8_ok(b) == Utf8From(b, 1)

\* serde_json::from_str::<Action>(text) on the texts above: the two
\* documents decode, absent optional fields become None; anything else is
\* an error with serde_json's message.
from_str(text) ==
    CASE text = DocGet ->
            Ok([name |-> "get", id |-> 7, token |-> None, base64 |-> None,
                payload |-> EmptyMap, result |-> None, errors |-> None])
      [] text = DocDelete ->
            Ok([name |-> "delete", id |-> 8, token |-> Some("tok"),
                base64 |-> None,
                payload |-> ("user" :> JsonString("bob")),
                result |-> None, errors |-> None])
      [] text = DocNoPayload -> Err("missing field payload")
      [] text = <<>> -> Err("EOF while parsing a value")
      [] Len(text) > 0 /\ text[1] = 123 /\ text # DocGet
            /\ text # DocDelete /\ text # DocNoPayload ->
            Err("EOF while parsing an object")
      [] OTHER -> Err("expected value")

\* What a call can end in besides a value: a panic.
Panic == <<"Panic">>

\* Action::from_bytes: from_utf8(&buf).unwrap(), then from_str.
from_bytes(buf) ==
    IF ~from_utf8_ok(buf)
    THEN Panic
    ELSE LET r == from_str(buf)
         IN  IF IsOk(r) THEN Ok(r[2]) ELSE Err(r[2])

(* -------------------------- impl Manager<R> --------------------------- *)
new(name, resource) ==
    [name |-> name, actions |-> EmptyMap,
     resource |-> Some(resource), gen_resource |-> None]

with(name, f) ==
    [name |-> name, actions |-> EmptyMap,
     resource |-> None, gen_resource |-> Some(f)]

\* The setup closures handed to init: what each returns for the resource.
SetupIds == {"sOk", "sErr"}
Setup(f, r) ==
    CASE f = "sOk" -> Ok(<<>>)
      [] f = "sErr" -> Err(ActionError_new("Setup", "failed"))

\* match f(&r) { Ok(_) => (), Err(e) => panic!(..) }
run_setup(f, r, t) ==
    [t EXCEPT !.calls = Append(@, [handler |-> f, resource |-> r]),
              !.panicked = ~IsOk(Setup(f, r))]

\* Manager::init; the second if is reached unless the first one panicked.
init(m, f, t) ==
    LET t1 == IF IsSome(m.resource)
              THEN run_setup(f, m.resource[1], t)
              ELSE t
    IN  IF t1.panicked
        THEN t1
        ELSE IF IsSome(m.gen_resource)
             THEN run_setup(f, Generate(m.gen_resource[1], t1.gens + 1),
                            [t1 EXCEPT !.gens = @ + 1])
             ELSE t1

\* Mutant of action: a later registration replaces the handler.
action_overwrite(m, name, f) == [m EXCEPT !.actions = (name :> f) @@ @]

action(m, name, f) ==
    IF name \in DOMAIN m.actions
    THEN m
    ELSE [m EXCEPT !.actions = (name :> f) @@ @]

for_each(m, f) == [m EXCEPT !.gen_resource = Some(f)]

on(m, name, f) ==
    IF name \in DOMAIN m.actions
    THEN m
    ELSE [m EXCEPT !.actions = (name :> f) @@ @]

\* A call in progress: the envelope being mutated, the handler invocations
\* made so far (handler, resource passed) and the generator invocations
\* made so far over the manager's life.
Call(a, n) == [action |-> a, calls |-> <<>>, gens |-> n]

\* func(resource, &action) folded into the envelope (the match on its result).
invoke(func, resource, t) ==
    LET out == Handler(func, resource, t.action)
        t1 == [t EXCEPT !.calls =
                  Append(@, [handler |-> func, resource |-> resource])]
    IN  IF IsOk(out)
        THEN [t1 EXCEPT !.action = set_result(@, to_value(out[2]))]
        ELSE [t1 EXCEPT !.action = set_error(@, out[2])]

\* gen_resource(): one more instance from the generator.
gen_call(m, t) == [t EXCEPT !.gens = @ + 1]
gen_value(m, t) == Generate(m.gen_resource[1], t.gens + 1)

\* Mutant of run_action: the not-found error code leaves out the manager name.
run_action_bare_code(m, resource, t) ==
    IF t.action.name \in DOMAIN m.actions
    THEN invoke(m.actions[t.action.name], resource, t)
    ELSE [t EXCEPT !.action =
            set_error(@, ActionError_new("DoAction",
                         "Action does NOT exist, make sure it is valid"))]

\* Mutant of run_action: an unknown name turns the envelope into a
\* server-error one.
run_action_server_err(m, resource, t) ==
    IF t.action.name \in DOMAIN m.actions
    THEN invoke(m.actions[t.action.name], resource, t)
    ELSE [t EXCEPT !.action =
            server_err(ActionError_new(m.name \o " - DoAction",
                       "Action does NOT exist, make sure it is valid"))]

\* Mutant of run_action: an unknown name is passed over in silence.
run_action_silent(m, resource, t) ==
    IF t.action.name \in DOMAIN m.actions
    THEN invoke(m.actions[t.action.name], resource, t)
    ELSE t

run_action(m, resource, t) ==
    IF t.action.name \in DOMAIN m.actions
    THEN invoke(m.actions[t.action.name], resource, t)
    ELSE [t EXCEPT !.action =
            set_error(@, ActionError_new(m.name \o " - DoAction",
                         "Action does NOT exist, make sure it is valid"))]

\* Mutant of do_action: the two provisioning fields are tried one after the
\* other instead of either-or.
do_action_both(m, t) ==
    LET t1 == IF IsSome(m.gen_resource)
              THEN run_action(m, gen_value(m, t), gen_call(m, t))
              ELSE t
    IN  IF IsSome(m.resource) THEN run_action(m, m.resource[1], t1) ELSE t1

\* Mutant of do_action: the retained resource is preferred to the generator.
do_action_shared_first(m, t) ==
    IF IsSome(m.resource)
    THEN run_action(m, m.resource[1], t)
    ELSE IF IsSome(m.gen_resource)
         THEN run_action(m, gen_value(m, t), gen_call(m, t))
         ELSE t

do_action(m, t) ==
    IF IsSome(m.gen_resource)
    THEN run_action(m, gen_value(m, t), gen_call(m, t))
    ELSE IF IsSome(m.resource)
         THEN run_action(m, m.resource[1], t)
         ELSE t

\* Mutant of do_action_if_exists: an unknown name is reported as do_action
\* reports it.
do_action_if_exists_reports(m, t) ==
    IF t.action.name \in DOMAIN m.actions
    THEN IF IsSome(m.resource)
         THEN invoke(m.actions[t.action.name], m.resource[1], t)
         ELSE run_action(m, gen_value(m, t), gen_call(m, t))
    ELSE [t EXCEPT !.action =
            set_error(@, ActionError_new(m.name \o " - DoAction",
                         "Action does NOT exist, make sure it is valid"))]

do_action_if_exists(m, t) ==
    IF t.action.name \in DOMAIN m.actions
    THEN LET func == m.actions[t.action.name]
             t1 == IF IsSome(m.resource)
                   THEN invoke(func, m.resource[1], t)
                   ELSE t
         IN  IF IsSome(m.gen_resource)
             THEN run_action(m, gen_value(m, t1), gen_call(m, t1))
             ELSE t1
    ELSE t

(* ------------------------------ system -------------------------------- *)
\* What the last step did: the operation, the envelope it was given and the
\* handler and generator invocations it made.
Done(op, before, t) ==
    [op |-> op, before |-> before, calls |-> t.calls,
     gens |-> t.gens - genCount]

Idle == Done("idle", envelope, Call(envelope, genCount))

\* A registration call; "reregister" when an earlier call registered the
\* name with another handler.
Registered(n, h) ==
    IF n \in DOMAIN firstReg /\ firstReg[n] # h
    THEN [Idle EXCEPT !.op = "reregister"]
    ELSE [Idle EXCEPT !.op = "register"]

\* History: the handler of the first registration call made for each name.
NoteFirst(n, h) ==
    IF n \in DOMAIN firstReg THEN firstReg ELSE (n :> h) @@ firstReg

\* What the last decoding or synthesizing call was given and returned.
NoIo == [op |-> "none", input |-> <<>>, output |-> <<>>]

\* No panic has unwound the program, nothing was decoded.
InitQuiet ==
    /\ aborted = FALSE
    /\ io = NoIo

\* The managers the constructors build.
Built(names) ==
    {new(n, SharedResource) : n \in names}
        \cup {with(n, g) : n \in names, g \in GenIds}

\* A chain of managers not yet entered.
NoChain == [stage |-> 0, start |-> None, calls |-> <<>>]

\* The calls that run side by side.
Procs == {1, 2}

\* No second manager takes part, no call runs beside another.
InitSide ==
    /\ mgr2 = new("orders", SharedResource)
    /\ chain = NoChain
    /\ run = [p \in Procs |-> [pc |-> "idle"]]
    /\ cells = EmptyMap

InitAux == InitQuiet /\ InitSide

\* One manager, one envelope, nothing dispatched yet.
InitCore ==
    /\ envelope \in Envelopes
    /\ reply = None
    /\ last = [op |-> "idle", before |-> envelope, calls |-> <<>>, gens |-> 0]
    /\ firstReg = EmptyMap
    /\ genCount = 0
    /\ dispatched = 0

Init ==
    /\ mgr \in Built(ManagerNames)
    /\ InitCore
    /\ InitAux

RegisterAction ==
    \E n \in ActionNames, h \in HandlerIds :
        /\ mgr' = action(mgr, n, h)
        /\ firstReg' = NoteFirst(n, h)
        /\ last' = Registered(n, h)
        /\ ~aborted
        /\ UNCHANGED <<envelope, reply, genCount, dispatched, aux>>

RegisterOn ==
    \E n \in ActionNames, h \in HandlerIds :
        /\ mgr' = on(mgr, n, h)
        /\ firstReg' = NoteFirst(n, h)
        /\ last' = Registered(n, h)
        /\ ~aborted
        /\ UNCHANGED <<envelope, reply, genCount, dispatched, aux>>

ForEach ==
    \E g \in GenIds :
        /\ mgr' = for_each(mgr, g)
        /\ last' = Idle
        /\ ~aborted
        /\ UNCHANGED <<envelope, reply, firstReg, genCount, dispatched, aux>>

\* The caller takes up the next envelope.
Receive ==
    \E e \in Envelopes :
        /\ envelope' = e
        /\ reply' = None
        /\ dispatched' = 0
        /\ last' = Done("idle", e, Call(e, genCount))
        /\ ~aborted
        /\ UNCHANGED <<mgr, firstReg, genCount, aux>>

DoAction ==
    LET t == do_action(mgr, Call(envelope, genCount))
    IN  /\ IsNone(reply)
        /\ dispatched < MaxDispatch
        /\ t.gens <= MaxGens
        /\ envelope' = t.action
        /\ genCount' = t.gens
        /\ dispatched' = dispatched + 1
        /\ last' = Done("do_action", envelope, t)
        /\ ~aborted
        /\ UNCHANGED <<mgr, reply, firstReg, aux>>

DoActionIfExists ==
    LET t == do_action_if_exists(mgr, Call(envelope, genCount))
    IN  /\ IsNone(reply)
        /\ dispatched < MaxDispatch
        /\ t.gens <= MaxGens
        /\ envelope' = t.action
        /\ genCount' = t.gens
        /\ dispatched' = dispatched + 1
        /\ last' = Done("do_action_if_exists", envelope, t)
        /\ ~aborted
        /\ UNCHANGED <<mgr, reply, firstReg, aux>>

\* The envelope is consumed into its reply.
IntoReply ==
    /\ IsNone(reply)
    /\ reply' = Some(into_reply(envelope))
    /\ last' = Done("into_reply", envelope, Call(envelope, genCount))
    /\ ~aborted
    /\ UNCHANGED <<mgr, envelope, firstReg, genCount, dispatched, aux>>

Next ==
    \/ RegisterAction
    \/ RegisterOn
    \/ ForEach
    \/ Receive
    \/ DoAction
    \/ DoActionIfExists
    \/ IntoReply

Spec == Init /\ [][Next]_vars

(* --------------------------- registry build --------------------------- *)
\* One init call at build time; a panic ends the program.
InitHook ==
    \E f \in SetupIds :
        LET t == init(mgr, f, [action |-> envelope, calls |-> <<>>,
                               gens |-> genCount, panicked |-> FALSE])
        IN  /\ ~aborted
            /\ t.gens <= MaxGens
            /\ genCount' = t.gens
            /\ aborted' = t.panicked
            /\ last' = Done("init", envelope, t)
            /\ UNCHANGED <<mgr, envelope, reply, firstReg, dispatched, io, side>>

NextBuild ==
    \/ RegisterAction
    \/ RegisterOn
    \/ ForEach
    \/ InitHook

SpecBuild == Init /\ [][NextBuild]_vars

(* ----------------------- decode, fail, reply -------------------------- *)
\* The errors a transport wraps into a server-error envelope.
ServerErrors ==
    { ActionError_new("Decode", "expected value"),
      ActionError_new("io::Error", "broken pipe") }

\* The transport decodes the next buffer; a decoded envelope is the one it
\* goes on with.
FromBytes ==
    \E buf \in Buffers :
        LET out == from_bytes(buf)
            e == IF out[1] = "Ok" THEN out[2] ELSE envelope
        IN  /\ ~aborted
            /\ io' = [op |-> "from_bytes", input |-> buf, output |-> out]
            /\ aborted' = (out[1] = "Panic")
            /\ envelope' = e
            /\ reply' = IF out[1] = "Ok" THEN None ELSE reply
            /\ dispatched' = IF out[1] = "Ok" THEN 0 ELSE dispatched
            /\ last' = Done("idle", e, Call(e, genCount))
            /\ UNCHANGED <<mgr, firstReg, genCount, side>>

\* The transport synthesizes a server-error envelope.
ServerErr ==
    \E err \in ServerErrors :
        /\ ~aborted
        /\ envelope' = server_err(err)
        /\ io' = [op |-> "server_err", input |-> err,
                  output |-> Ok(server_err(err))]
        /\ reply' = None
        /\ dispatched' = 0
        /\ last' = Done("idle", envelope', Call(envelope', genCount))
        /\ UNCHANGED <<mgr, firstReg, genCount, aborted, side>>

NextDecode ==
    \/ FromBytes
    \/ ServerErr
    \/ IntoReply

SpecDecode == Init /\ [][NextDecode]_vars

(* ------------------------- one envelope's life ------------------------ *)
\* The values and errors a caller sets on the envelope directly.
DirectValue == JsonString("done")
DirectError == ActionError_new("Caller", "rejected")

SetResult ==
    /\ ~aborted
    /\ IsNone(reply)
    /\ dispatched < MaxDispatch
    /\ envelope' = set_result(envelope, DirectValue)
    /\ dispatched' = dispatched + 1
    /\ last' = Done("set_result", envelope, Call(envelope, genCount))
    /\ UNCHANGED <<mgr, reply, firstReg, genCount, aux>>

SetError ==
    /\ ~aborted
    /\ IsNone(reply)
    /\ dispatched < MaxDispatch
    /\ envelope' = set_error(envelope, DirectError)
    /\ dispatched' = dispatched + 1
    /\ last' = Done("set_error", envelope, Call(envelope, genCount))
    /\ UNCHANGED <<mgr, reply, firstReg, genCount, aux>>

\* The calls that can reach one envelope between its construction and its
\* reply, with the registry still open to registration.
NextLife ==
    \/ RegisterAction
    \/ RegisterOn
    \/ ForEach
    \/ DoAction
    \/ DoActionIfExists
    \/ SetResult
    \/ SetError

SpecLife == Init /\ [][NextLife]_vars

(* -------------------------- chained managers -------------------------- *)
\* Two managers, "users" and "orders", and a Created envelope that is passed
\* through do_action_if_exists of the one, then of the other.
InitChain ==
    /\ mgr \in Built({"users"})
    /\ mgr2 \in Built({"orders"})
    /\ InitCore
    /\ Created(envelope)
    /\ InitQuiet
    /\ chain = NoChain
    /\ run = [p \in Procs |-> [pc |-> "idle"]]
    /\ cells = EmptyMap

\* Registration and for_each on either manager, before the chain is entered.
RegisterFirst ==
    \E n \in ActionNames, h \in HandlerIds :
        /\ chain.stage = 0
        /\ mgr' = on(mgr, n, h)
        /\ UNCHANGED <<envelope, reply, last, firstReg, genCount, dispatched,
                       aborted, io, mgr2, chain, run, cells>>

RegisterSecond ==
    \E n \in ActionNames, h \in HandlerIds :
        /\ chain.stage = 0
        /\ mgr2' = on(mgr2, n, h)
        /\ UNCHANGED <<mgr, envelope, reply, last, firstReg, genCount,
                       dispatched, aborted, io, chain, run, cells>>

ForEachFirst ==
    \E g \in GenIds :
        /\ chain.stage = 0
        /\ mgr' = for_each(mgr, g)
        /\ UNCHANGED <<envelope, reply, last, firstReg, genCount, dispatched,
                       aborted, io, mgr2, chain, run, cells>>

ForEachSecond ==
    \E g \in GenIds :
        /\ chain.stage = 0
        /\ mgr2' = for_each(mgr2, g)
        /\ UNCHANGED <<mgr, envelope, reply, last, firstReg, genCount,
                       dispatched, aborted, io, chain, run, cells>>

\* m.do_action_if_exists(&mut action) as the next link of the chain.
Link(m, stage) ==
    LET t == do_action_if_exists(m, Call(envelope, genCount))
    IN  /\ chain.stage = stage
        /\ t.gens <= MaxGens
        /\ envelope' = t.action
        /\ genCount' = t.gens
        /\ chain' = [chain EXCEPT
                        !.stage = stage + 1,
                        !.start = IF stage = 0 THEN Some(envelope) ELSE @,
                        !.calls = @ \o t.calls]
        /\ last' = Done("do_action_if_exists", envelope, t)
        /\ UNCHANGED <<mgr, mgr2, reply, firstReg, dispatched, aborted, io,
                       run, cells>>

ChainFirst == Link(mgr, 0)

ChainSecond == Link(mgr2, 1)

NextChain ==
    \/ RegisterFirst
    \/ RegisterSecond
    \/ ForEachFirst
    \/ ForEachSecond
    \/ ChainFirst
    \/ ChainSecond

SpecChain == InitChain /\ [][NextChain]_vars

(* ------------------------ concurrent dispatch ------------------------- *)
\* Two do_action calls on one manager with a generator, each on its own
\* envelope, interleaved at the generator call, the handler's entry and the
\* handler's return. A resource instance has one cell of local state; the
\* handler "hCell" stores the envelope's id in the cell of the instance it is
\* given and returns what it then finds there.
ConcHandlerIds == HandlerIds \cup {"hCell"}

\* The managers with a generator and handlers registered through on.
Factories ==
    LET base == {with("users", g) : g \in GenIds}
                    \cup {for_each(new("users", SharedResource), g) :
                              g \in GenIds}
        one == {on(m, "get", h) : m \in base, h \in ConcHandlerIds}
    IN  one \cup {on(m, "delete", h) : m \in one, h \in ConcHandlerIds}

InitConc ==
    /\ mgr \in Factories
    /\ InitCore
    /\ InitQuiet
    /\ mgr2 = new("orders", SharedResource)
    /\ chain = NoChain
    /\ \E a, b \in {e \in Envelopes : Created(e)} :
          /\ a = envelope
          /\ a.id # b.id
          /\ run = [p \in Procs |->
                      [pc |-> "start", action |-> IF p = 1 THEN a ELSE b,
                       r |-> None, made |-> None, passed |-> None]]
    /\ cells = EmptyMap

\* Mutant of own_resource: the call uses the instance generated last.
latest_resource(p) == Generate(mgr.gen_resource[1], genCount)

\* &r in self.run_action(&r, action): the call's own local.
own_resource(p) == run[p].r[1]

\* let r = gen_resource();
ConcGenerate(p) ==
    LET r == Generate(mgr.gen_resource[1], genCount + 1)
    IN  /\ run[p].pc = "start"
        /\ genCount' = genCount + 1
        /\ cells' = (r.serial :> 0) @@ cells
        /\ run' = [run EXCEPT ![p].pc = "lookup", ![p].r = Some(r),
                              ![p].made = Some(r)]
        /\ UNCHANGED <<mgr, envelope, reply, last, firstReg, dispatched,
                       aborted, io, mgr2, chain>>

\* self.actions.get(&action.name): the handler is entered with the resource,
\* or the not-found error is recorded.
ConcLookup(p) ==
    LET a == run[p].action
        r == own_resource(p)
    IN  /\ run[p].pc = "lookup"
        /\ IF a.name \in DOMAIN mgr.actions
           THEN /\ run' = [run EXCEPT ![p].pc = "handler",
                                      ![p].passed = Some(r)]
                /\ cells' = IF mgr.actions[a.name] = "hCell"
                            THEN [cells EXCEPT ![r.serial] = a.id]
                            ELSE cells
           ELSE /\ run' = [run EXCEPT ![p].pc = "done", ![p].action =
                              run_action(mgr, r, Call(a, genCount)).action]
                /\ cells' = cells
        /\ UNCHANGED <<mgr, envelope, reply, last, firstReg, genCount,
                       dispatched, aborted, io, mgr2, chain>>

\* The handler returns and its outcome is folded into the envelope.
ConcReturn(p) ==
    LET a == run[p].action
        h == mgr.actions[a.name]
        r == own_resource(p)
        out == IF h = "hCell"
               THEN Ok(JsonNumber(cells[r.serial]))
               ELSE Handler(h, r, a)
    IN  /\ run[p].pc = "handler"
        /\ run' = [run EXCEPT ![p].pc = "done", ![p].action =
                      IF IsOk(out)
                      THEN set_result(a, to_value(out[2]))
                      ELSE set_error(a, out[2])]
        /\ UNCHANGED <<mgr, envelope, reply, last, firstReg, genCount,
                       dispatched, aborted, io, mgr2, chain, cells>>

NextConc ==
    \/ \E p \in Procs : ConcGenerate(p)
    \/ \E p \in Procs : ConcLookup(p)
    \/ \E p \in Procs : ConcReturn(p)

SpecConc == InitConc /\ [][NextConc]_vars

(* ------------------------------ claims -------------------------------- *)
ErrorsOf(a) == IF IsSome(a.errors) THEN a.errors[1] ELSE <<>>
Registers(n) == n \in DOMAIN mgr.actions
Dual == IsSome(mgr.resource) /\ IsSome(mgr.gen_resource)
NotFoundMessage == "Action does NOT exist, make sure it is valid"
NotFoundCode ==
    CASE mgr.name = "users" -> "users - DoAction"
      [] mgr.name = "orders" -> "orders - DoAction"

\* C1: one do_action call on an envelope whose name is registered invokes
\* the handler registered under that name exactly once, and no other handler.
C1_DispatchInvokesRegisteredOnce ==
    (last.op = "do_action" /\ Registers(last.before.name)) =>
        /\ Len(last.calls) = 1
        /\ last.calls[1].handler = mgr.actions[last.before.name]

\* C1 witness: such a dispatch in a manager that holds two different
\* handlers and both a retained resource and a generator.
C1_Witness ==
    /\ last.op = "do_action"
    /\ Registers(last.before.name)
    /\ DOMAIN mgr.actions = ActionNames
    /\ mgr.actions["get"] # mgr.actions["delete"]
    /\ Dual
    /\ Len(last.calls) = 1

\* C2: on a registered name do_action_if_exists and do_action leave the
\* envelope with the same result and errors and make the same handler and
\* generator invocations.
C2_IfExistsSameAsDispatch ==
    Registers(envelope.name) =>
        do_action_if_exists(mgr, Call(envelope, genCount))
            = do_action(mgr, Call(envelope, genCount))

\* C3: do_action on a Created envelope whose name has no handler leaves
\* errors with exactly the one not-found entry "<manager-name> - DoAction",
\* result unset, and invokes no handler.
C3_UnknownNameOneError ==
    (last.op = "do_action" /\ Created(last.before)
        /\ ~Registers(last.before.name)) =>
        /\ envelope.errors =
              Some(<<[code |-> NotFoundCode, message |-> NotFoundMessage]>>)
        /\ IsNone(envelope.result)
        /\ last.calls = <<>>

\* C3 witness: an unknown name dispatched by a manager that has a handler
\* for another name.
C3_Witness ==
    /\ last.op = "do_action"
    /\ Created(last.before)
    /\ ~Registers(last.before.name)
    /\ DOMAIN mgr.actions # {}
    /\ Len(ErrorsOf(envelope)) = 1

\* C4: do_action_if_exists on an unregistered name is a no-op: the envelope
\* is equal to the one before, no handler and no generator is invoked.
C4_IfExistsUnknownNoOp ==
    (last.op = "do_action_if_exists" /\ ~Registers(last.before.name)) =>
        /\ envelope = last.before
        /\ last.calls = <<>>
        /\ last.gens = 0

\* C4 witness: the no-op on an unknown name in a manager with a generator
\* and with a handler for another name.
C4_Witness ==
    /\ last.op = "do_action_if_exists"
    /\ ~Registers(last.before.name)
    /\ DOMAIN mgr.actions # {}
    /\ IsSome(mgr.gen_resource)

\* C5, in every state: each name is bound to the handler of its first
\* registration call, and a dispatch invokes that handler.
C5_FirstBound ==
    /\ DOMAIN mgr.actions = DOMAIN firstReg
    /\ \A n \in DOMAIN mgr.actions : mgr.actions[n] = firstReg[n]
    /\ (last.op \in {"do_action", "do_action_if_exists"}) =>
          \A i \in DOMAIN last.calls :
              last.calls[i].handler = firstReg[last.before.name]

\* C5, in every step: no name is lost and no binding changes.
C5_Kept ==
    \A n \in DOMAIN mgr.actions :
        n \in DOMAIN mgr'.actions /\ mgr'.actions[n] = mgr.actions[n]

\* C5: re-registering a name never replaces its handler: the binding is that
\* of the first registration, the registered names never shrink, and a later
\* dispatch invokes the first-registered handler.
C5_FirstRegistrationWins == []C5_FirstBound /\ [][C5_Kept]_vars

\* C5 witness: a registration call offered another handler for a bound name,
\* and the first one is still bound.
C5_Witness ==
    /\ last.op = "reregister"
    /\ \E n \in DOMAIN mgr.actions : mgr.actions[n] = firstReg[n]

\* C6: do_action folds the handler's outcome: Ok(value) sets result to value
\* and leaves errors alone; Err(e) appends e after the earlier errors (a
\* one-element list if errors was absent) and leaves result alone.
C6_OutcomeFolded ==
    (last.op = "do_action" /\ Len(last.calls) = 1) =>
        LET c == last.calls[1]
            out == Handler(c.handler, c.resource, last.before)
        IN  IF IsOk(out)
            THEN /\ envelope.result = Some(out[2])
                 /\ envelope.errors = last.before.errors
            ELSE /\ envelope.errors =
                        Some(ErrorsOf(last.before) \o <<out[2]>>)
                 /\ envelope.result = last.before.result

\* C6 witness: a handler error appended after two earlier errors.
C6_Witness ==
    /\ last.op = "do_action"
    /\ Len(last.calls) = 1
    /\ Len(ErrorsOf(last.before)) = 2
    /\ Len(ErrorsOf(envelope)) = 3

\* C7: do_action always leaves the envelope Resolved: result set, or at
\* least one entry in errors.
C7_DispatchResolves ==
    (last.op = "do_action") =>
        IsSome(envelope.result) \/ Len(ErrorsOf(envelope)) >= 1

\* C7 witness: a Created envelope with an unknown name, resolved by do_action.
C7_Witness ==
    /\ last.op = "do_action"
    /\ Created(last.before)
    /\ ~Registers(last.before.name)
    /\ Len(ErrorsOf(envelope)) >= 1

\* C8: exactly one provisioning mode is active: never both a retained
\* resource and a generator, and never neither.
C8_ExactlyOneMode == IsSome(mgr.resource) # IsSome(mgr.gen_resource)

\* C9, in every state after a do_action: with a generator it was invoked
\* once and every handler call got the instance it just produced; without
\* one, no generator ran and every handler call got the retained instance.
C9_Provisioned ==
    (last.op = "do_action") =>
        IF IsSome(mgr.gen_resource)
        THEN /\ last.gens = 1
             /\ \A i \in DOMAIN last.calls :
                   last.calls[i].resource
                       = Generate(mgr.gen_resource[1], genCount)
        ELSE /\ last.gens = 0
             /\ IsSome(mgr.resource)
             /\ \A i \in DOMAIN last.calls :
                   last.calls[i].resource = SharedResource

\* C9, in every do_action step: the manager retains nothing of the call,
\* and the instance produced is a new one.
C9_Step ==
    (last'.op = "do_action") =>
        /\ mgr' = mgr
        /\ genCount' = genCount + last'.gens

\* C9: factory mode invokes the generator once per do_action (also for an
\* unknown name) and hands that fresh instance to the handler, retaining
\* nothing; shared mode invokes no generator and hands over the instance
\* given at construction.
C9_ResourcePerDispatch == []C9_Provisioned /\ [][C9_Step]_vars

\* C9 witness: a do_action on an unknown name in a generator-only manager
\* that invoked the generator once.
C9_Witness ==
    /\ last.op = "do_action"
    /\ IsSome(mgr.gen_resource)
    /\ IsNone(mgr.resource)
    /\ ~Registers(last.before.name)
    /\ last.gens = 1
    /\ genCount = 2

\* C10: into_reply keeps id, name, payload and result, turns absent errors
\* into the empty sequence and otherwise carries errors over unchanged.
C10_ReplyPreserves ==
    IsSome(reply) =>
        LET r == reply[1]
        IN  /\ DOMAIN r = {"id", "name", "payload", "result", "errors"}
            /\ r.id = envelope.id
            /\ r.name = envelope.name
            /\ r.payload = envelope.payload
            /\ r.result = envelope.result
            /\ r.errors = IF IsNone(envelope.errors)
                          THEN <<>>
                          ELSE envelope.errors[1]

\* C10 witness: the reply of an envelope resolved with a result and two
\* errors.
C10_Witness ==
    /\ IsSome(reply)
    /\ IsSome(envelope.result)
    /\ Len(ErrorsOf(envelope)) = 2
    /\ reply[1].errors = envelope.errors[1]

\* C11: one init call runs the setup function exactly once: against the
\* retained instance if there is one, otherwise against one generated
\* instance; a setup error aborts and leaves the envelope alone.
C11_InitRunsSetupOnce ==
    (last.op = "init") =>
        /\ Len(last.calls) = 1
        /\ IF IsSome(mgr.resource)
           THEN last.calls[1].resource = SharedResource /\ last.gens = 0
           ELSE /\ last.gens = 1
                /\ last.calls[1].resource
                      = Generate(mgr.gen_resource[1], genCount)
        /\ aborted = ~IsOk(Setup(last.calls[1].handler,
                                 last.calls[1].resource))
        /\ envelope = last.before

\* C12: from_bytes returns an error value and never aborts, both for bytes
\* that are not UTF-8 and for text that is no envelope document, and
\* returns an Action only for valid input.
C12_DecodeNeverAborts ==
    (io.op = "from_bytes") =>
        /\ ~aborted
        /\ io.output[1] \in {"Ok", "Err"}
        /\ (io.output[1] = "Ok") = (io.input \in {DocGet, DocDelete})

\* C17: server_err(err) builds an envelope named "server-error" whose
\* errors is exactly <<err>>, with result unset and payload empty, and
\* into_reply of it gives a reply whose errors is <<err>>.
C17_ServerErrResolved ==
    (io.op = "server_err") =>
        /\ envelope.name = "server-error"
        /\ envelope.errors = Some(<<io.input>>)
        /\ IsNone(envelope.result)
        /\ DOMAIN envelope.payload = {}
        /\ ~Created(envelope)
        /\ IsSome(reply) => reply[1].errors = <<io.input>>

\* C17 witness: a server-error envelope turned into its reply.
C17_Witness ==
    /\ io.op = "server_err"
    /\ IsSome(reply)
    /\ reply[1].name = "server-error"
    /\ Len(reply[1].errors) = 1

IsPrefix(u, v) == Len(u) <= Len(v) /\ SubSeq(v, 1, Len(u)) = u

\* C15, in every step: a set result stays set, errors stays present and
\* keeps all its entries in front, and a resolved envelope stays resolved.
C15_Step ==
    /\ IsSome(envelope.result) => IsSome(envelope'.result)
    /\ IsSome(envelope.errors) =>
          /\ IsSome(envelope'.errors)
          /\ IsPrefix(envelope.errors[1], envelope'.errors[1])
    /\ ~Created(envelope) => ~Created(envelope')

\* C15: over any sequence of do_action, do_action_if_exists, set_result and
\* set_error calls an envelope never returns to Created: result stays set,
\* errors never loses an entry and never becomes absent.
C15_NeverBackToCreated == [][C15_Step]_vars

\* C15 witness: a second call on an envelope that already had errors,
\* setting its result.
C15_Witness ==
    /\ last.op = "set_result"
    /\ dispatched = 2
    /\ Len(ErrorsOf(last.before)) >= 2
    /\ ErrorsOf(envelope) = ErrorsOf(last.before)
    /\ IsSome(envelope.result)

\* C16, in every dispatch step: the manager is unchanged, the handler found
\* for every name is the same, and of the envelope only result and errors
\* may differ.
C16_Step ==
    (last'.op \in {"do_action", "do_action_if_exists"}) =>
        /\ mgr'.actions = mgr.actions
        /\ mgr'.name = mgr.name
        /\ mgr'.resource = mgr.resource
        /\ mgr'.gen_resource = mgr.gen_resource
        /\ envelope'.name = envelope.name
        /\ envelope'.id = envelope.id
        /\ envelope'.token = envelope.token
        /\ envelope'.base64 = envelope.base64
        /\ envelope'.payload = envelope.payload

\* C16: do_action and do_action_if_exists touch only result and errors:
\* handler map, manager name and provisioning fields, and the envelope's
\* name, id, token, base64 and payload are left as they were.
C16_DispatchFrame == [][C16_Step]_vars

\* C16 witness: a dispatch that changed an envelope carrying a token, a
\* base64 string and a payload.
C16_Witness ==
    /\ last.op \in {"do_action", "do_action_if_exists"}
    /\ envelope # last.before
    /\ IsSome(envelope.token)
    /\ IsSome(envelope.base64)
    /\ DOMAIN envelope.payload # {}
    /\ DOMAIN mgr.actions # {}

Owns(m, a) == a.name \in DOMAIN m.actions
DisjointNames == DOMAIN mgr.actions \cap DOMAIN mgr2.actions = {}

\* What the manager owning the envelope's name makes of it on its own.
ByOwner(a) ==
    IF Owns(mgr, a) THEN do_action_if_exists(mgr, Call(a, 0)).action
    ELSE IF Owns(mgr2, a) THEN do_action_if_exists(mgr2, Call(a, 0)).action
    ELSE a

\* C14: a Created envelope passed through do_action_if_exists of managers
\* with pairwise disjoint names has at most one handler invoked in all, gets
\* no not-found error, and ends as the owning manager alone leaves it (or
\* untouched if no manager owns its name).
C14_ChainAtMostOne ==
    (chain.stage = 2 /\ Created(chain.start[1]) /\ DisjointNames) =>
        /\ Len(chain.calls) <= 1
        /\ \A i \in DOMAIN ErrorsOf(envelope) :
              ErrorsOf(envelope)[i].message # NotFoundMessage
        /\ envelope = ByOwner(chain.start[1])

\* C13: of two concurrent do_action calls on a manager with a generator,
\* each handler invocation is passed the instance generated for its own
\* call and none generated for the other, and a handler that keeps state in
\* its resource finds only its own call's state there.
C13_OwnInstance ==
    \A p \in Procs :
        /\ IsSome(run[p].passed) =>
              /\ run[p].passed = run[p].made
              /\ \A q \in Procs \ {p} : run[q].made # run[p].passed
        /\ (run[p].pc = "done" /\ Registers(run[p].action.name)
               /\ mgr.actions[run[p].action.name] = "hCell") =>
              run[p].action.result = Some(JsonNumber(run[p].action.id))

\* C13 witness: both calls are inside the state-keeping handler at once.
C13_Witness ==
    /\ \A p \in Procs :
          /\ run[p].pc = "handler"
          /\ mgr.actions[run[p].action.name] = "hCell"
    /\ run[1].passed # run[2].passed

====
